---- MODULE Spec2Model ----
(***************************************************************************)
(* State-machine model of VLIWSimulator (src/new1.cpp): the translation-   *)
(* block builder with branch-delay clamping, the deferred-store packet     *)
(* reorderer, and the software-pipelined-loop phase machines (single and   *)
(* nested).  Every public method is one action; the actions of the driver  *)
(* (simulateExecution) that set the private counters and push the built    *)
(* blocks are generalised over their literal arguments.                    *)
(***************************************************************************)
EXTENDS Integers, Sequences, FiniteSets

VARIABLES
    guest_code,          \* vector<ExecutePacket>
    translation_blocks,  \* vector<TranslationBlock>
    saved_contexts,      \* vector<SavedContext>
    current_tb_id,       \* int
    ILC, RILC, A1,       \* loop counters
    state,               \* phase of the pipelined-loop machine (0, 1, 2)
    sploop_start_index,  \* int, -1 when unset
    deferred_stores,     \* vector<DeferredStore>
    ep,                  \* the caller-owned packet handed to the reorderer
    ep_in,               \* that packet as it was before the last reorder call
    ep_calls,            \* reorder calls made on that packet
    cycles_ret,          \* the driver's copy of the last getCyclesFromPrecedingTB result
    start_ret,           \* the driver's copy of the last getNextStartEP result
    dispatched,          \* TB ids the last phase step logged as executed
    run                  \* the driver's loop parameters and the steps it invoked since

vars == <<guest_code, translation_blocks, saved_contexts, current_tb_id,
          ILC, RILC, A1, state, sploop_start_index, deferred_stores,
          ep, ep_in, ep_calls, cycles_ret, start_ret, dispatched, run>>

-----------------------------------------------------------------------------
(* Bounds of the model *)

\* longest stream assembled packet by packet with addEP
MaxGeneric == 3
\* most translation blocks kept before another build is started
MaxTBs == 2
\* most translation blocks kept before another phase step is started
MaxPhaseTBs == 4
\* most obligations kept in the tracker
MaxCtx == 3
\* largest ILC and RILC the driver sets
MaxCount == 8
\* largest A1 the driver sets
MaxOuter == 3
\* most phase-step invocations after the driver set the counters
MaxCalls == 4
\* largest start index of a build over the long stream
MaxLongStart == 4
\* most instructions of a packet handed to the reorderer
MaxInsns == 3
\* most reorder calls on one packet
MaxReorders == 2

MaxSet == 2

MaxTail == 2

-----------------------------------------------------------------------------
(* Data model *)

\* the sentinel "no branch" / "nothing outstanding" of the builder and tracker
Unconstrained == 1000

\* index of the first packet of the overlap region
OverlapStart == 10

\* values an int member that is never assigned may hold
IndeterminateInt == {-1, 0}

\* values a bool member that is never assigned may hold
IndeterminateBool == {TRUE, FALSE}

createInstruction(type, mnemonic, unit, delay, operands, line, pred, par) ==
    [type |-> type, mnemonic |-> mnemonic, unit |-> unit,
     delay_slots |-> delay, predicate |-> pred, operands |-> operands,
     line_num |-> line, parallel |-> par]

Packet(ep_num, cycles, insns) ==
    [instructions |-> insns, cycles |-> cycles, ep_num |-> ep_num]

Last(s) == s[Len(s)]

\* Figure 1: 13 packets
Fig1Stream ==
    [i \in 1..5 |-> Packet(i, 1, <<createInstruction("BRANCH", "B", ".S2", 5, "LOOP", i, "", FALSE)>>)]
    \o << Packet(6, 1, << createInstruction("ARITHMETIC", "SUB", ".D2", 0, "B1, 0x1, B1", 6, "[B1]", FALSE),
                          createInstruction("BRANCH", "B", ".S1", 5, "LOOP", 7, "[B1]", TRUE) >>),
          Packet(7, 1, <<createInstruction("BRANCH", "B", ".S2", 5, "B3", 8, "", FALSE)>>) >>
    \o [i \in 1..4 |-> Packet(i + 7, 1, <<createInstruction("NOP", "NOP", "", 0, "", 9 + (i - 1), "", FALSE)>>)]
    \o << Packet(12, 1, <<createInstruction("ARITHMETIC", "MV", ".L1", 0, "A10, A2", 12, "", FALSE)>>),
          Packet(13, 1, <<createInstruction("ARITHMETIC", "ADD", ".L1", 0, "A4, A2, A4", 13, "", FALSE)>>) >>

\* Figure 4: 8 packets, pipelined body from index 4
SploopStream ==
    << Packet(1, 1, <<createInstruction("ARITHMETIC", "MVK", ".S", 0, "8, A0", 1, "", FALSE)>>),
       Packet(2, 1, <<createInstruction("ARITHMETIC", "MVC", ".S", 0, "A0, ILC", 2, "", FALSE)>>),
       Packet(3, 3, <<createInstruction("NOP", "NOP", "", 0, "3", 3, "", FALSE)>>),
       Packet(4, 1, <<createInstruction("SPLOOP", "SPLOOP", "", 0, "1", 4, "", FALSE)>>),
       Packet(5, 1, <<createInstruction("LOAD", "LDW", ".D", 4, "*A1++, A2", 5, "", FALSE)>>),
       Packet(6, 4, <<createInstruction("NOP", "NOP", "", 0, "4", 6, "", FALSE)>>),
       Packet(7, 1, <<createInstruction("ARITHMETIC", "MV", ".L1X", 0, "A2, B2", 7, "", FALSE)>>),
       Packet(8, 1, << createInstruction("SPKERNEL", "SPKERNEL", "", 0, "6, 0", 8, "", FALSE),
                       createInstruction("STORE", "STW", ".D", 0, "B2, *B0++", 9, "", TRUE) >>) >>

\* Figure 6: 15 packets, pipelined body from index 6
NestedStream ==
    << Packet(1, 1, <<createInstruction("ARITHMETIC", "MVK", ".S", 0, "7, A8", 1, "", FALSE)>>),
       Packet(2, 1, <<createInstruction("ARITHMETIC", "MVC", ".S", 0, "A8, ILC", 2, "", FALSE)>>),
       Packet(3, 1, <<createInstruction("ARITHMETIC", "MVC", ".S", 0, "A8, RILC", 3, "", FALSE)>>),
       Packet(4, 1, <<createInstruction("ARITHMETIC", "MVK", ".S", 0, "1, A1", 4, "", FALSE)>>),
       Packet(5, 3, <<createInstruction("NOP", "NOP", "", 0, "3", 5, "", FALSE)>>),
       Packet(6, 1, <<createInstruction("SPLOOP", "SPLOOP", "", 0, "1", 6, "[A1]", FALSE)>>),
       Packet(7, 1, <<createInstruction("LOAD", "LDW", ".D1", 0, "*A4++, A0", 7, "", FALSE)>>),
       Packet(8, 4, <<createInstruction("NOP", "NOP", "", 0, "4", 8, "", FALSE)>>),
       Packet(9, 1, <<createInstruction("ARITHMETIC", "MV", ".L2X", 0, "A0, B0", 9, "", FALSE)>>),
       Packet(10, 1, << createInstruction("SPKERNEL", "SPKERNELR", "", 0, "", 10, "", FALSE),
                        createInstruction("STORE", "STW", ".D2", 0, "B0, *B4++", 11, "", TRUE) >>),
       Packet(11, 1, <<createInstruction("BRANCH", "BR", ".S2", 5, "TARGET", 12, "", FALSE)>>),
       Packet(12, 1, << createInstruction("SPMASK", "SPMASK", ".D", 0, "", 13, "", FALSE),
                        createInstruction("BRANCH", "B", "", 0, "BR TARGET", 14, "[A1]", TRUE),
                        createInstruction("ARITHMETIC", "SUB", ".S1", 0, "A1, 1, A1", 15, "[A1]", TRUE),
                        createInstruction("LOAD", "LDW", ".D1", 0, "*A6, A0", 16, "[A1]", TRUE),
                        createInstruction("ARITHMETIC", "ADD", ".L1", 0, "A6, 4, A4", 17, "[A1]", TRUE) >>),
       Packet(13, 4, <<createInstruction("NOP", "NOP", "", 0, "4", 18, "", FALSE)>>),
       Packet(14, 1, <<createInstruction("ARITHMETIC", "OR", ".S2", 0, "B6, 0, B4", 19, "", FALSE)>>),
       Packet(15, 1, <<createInstruction("NOP", "NOP", "", 0, "", 20, "", FALSE)>>) >>

-----------------------------------------------------------------------------
(* Packets a caller assembles with createInstruction and addEP *)

SampleKinds == {"nop1", "nop3", "br0", "br21"}

SampleInstructions(kind, line) ==
    CASE kind = "nop1" -> <<createInstruction("NOP", "NOP", "", 0, "", line, "", FALSE)>>
      [] kind = "nop3" -> <<createInstruction("NOP", "NOP", "", 0, "3", line, "", FALSE)>>
      [] kind = "br0"  -> <<createInstruction("BRANCH", "B", ".S2", 0, "T0", line, "", FALSE)>>
      [] kind = "br21" -> << createInstruction("BRANCH", "B", ".S1", 2, "T2", line, "", FALSE),
                             createInstruction("BRANCH", "B", ".S2", 1, "T1", line, "[B1]", TRUE) >>

SampleCycles(kind) == IF kind = "nop3" THEN 3 ELSE 1

\* budgets a caller passes besides the one the tracker returned
Budgets == {1, Unconstrained}

-----------------------------------------------------------------------------
(* TB builder: translateWithConstraint *)

\* ep_index < guest_code.size() compares as unsigned: a negative index is out of range
InRange(code, ep_index) == ep_index >= 0 /\ ep_index < Len(code)

RECURSIVE MinBranchDelay(_, _)
MinBranchDelay(insns, acc) ==
    IF insns = <<>> THEN acc
    ELSE LET insn == Head(insns)
         IN  MinBranchDelay(Tail(insns),
                 IF insn.type = "BRANCH" /\ insn.delay_slots < acc
                 THEN insn.delay_slots ELSE acc)

\* a recording that stops after the first Branch of a packet
FirstBranchOnly(insns) ==
    LET b == SelectSeq(insns, LAMBDA insn : insn.type = "BRANCH")
    IN  IF b = <<>> THEN <<>>
        ELSE <<[remaining_delay |-> b[1].delay_slots,
                target_address |-> b[1].operands,
                instruction_line |-> b[1].line_num]>>

RECURSIVE BranchContexts(_)
BranchContexts(insns) ==
    IF insns = <<>> THEN <<>>
    ELSE LET insn == Head(insns)
         IN  (IF insn.type = "BRANCH"
              THEN <<[remaining_delay |-> insn.delay_slots,
                      target_address |-> insn.operands,
                      instruction_line |-> insn.line_num]>>
              ELSE <<>>) \o BranchContexts(Tail(insns))

Clamp(min_current_branch_delay, cycles) ==
    IF min_current_branch_delay < Unconstrained /\ min_current_branch_delay < cycles
    THEN min_current_branch_delay
    ELSE cycles

\* an iteration that steps over the packet after the one it appends
BuildIterationSkipping(code, b) ==
    LET pkt == code[b.ep_index + 1]
        min_current_branch_delay == MinBranchDelay(pkt.instructions, Unconstrained)
    IN  [packets  |-> Append(b.packets, pkt),
         contexts |-> b.contexts \o BranchContexts(pkt.instructions),
         cycles   |-> Clamp(min_current_branch_delay, b.cycles - pkt.cycles),
         ep_index |-> b.ep_index + 2]

\* one iteration of the while loop: the packet at ep_index is appended, its
\* branches recorded, the budget charged and clamped
BuildIteration(code, b) ==
    LET pkt == code[b.ep_index + 1]
        min_current_branch_delay == MinBranchDelay(pkt.instructions, Unconstrained)
    IN  [packets  |-> Append(b.packets, pkt),
         contexts |-> b.contexts \o BranchContexts(pkt.instructions),
         cycles   |-> Clamp(min_current_branch_delay, b.cycles - pkt.cycles),
         ep_index |-> b.ep_index + 1]

\* the loop condition; the break on cycles <= 0 leaves the loop in a state
\* where this condition is false as well
BuildContinues(code, b) == InRange(code, b.ep_index) /\ b.cycles > 0

\* at most n iterations of the while loop, split in halves so that a long
\* stream does not nest the evaluation once per packet
RECURSIVE BuildSteps(_, _, _)
BuildSteps(code, b, n) ==
    IF n = 0 \/ ~BuildContinues(code, b) THEN b
    ELSE IF n = 1 THEN BuildIteration(code, b)
    ELSE BuildSteps(code, BuildSteps(code, b, n \div 2), n - (n \div 2))

\* every iteration consumes one packet, so the loop runs at most once per packet
BuildLoop(code, b) == BuildSteps(code, b, Len(code))

BuildStart(start_ep, initial_cycles) ==
    [packets |-> <<>>, contexts |-> <<>>, cycles |-> initial_cycles, ep_index |-> start_ep]

\* the block translateWithConstraint returns; start_label is left default-constructed
BuiltTB(code, id, start_ep, initial_cycles) ==
    LET b == BuildLoop(code, BuildStart(start_ep, initial_cycles))
    IN  [packets |-> b.packets, tb_id |-> id, max_cycles |-> initial_cycles,
         start_label |-> "", start_ep_index |-> start_ep,
         end_ep_index |-> b.ep_index - 1]

\* tb = translateWithConstraint(start_ep, initial_cycles); translation_blocks.push_back(tb)
Build(start_ep, initial_cycles) ==
    LET b == BuildLoop(guest_code, BuildStart(start_ep, initial_cycles))
    IN  /\ Len(translation_blocks) < MaxTBs
        /\ Len(saved_contexts) + Len(b.contexts) <= MaxCtx
        /\ translation_blocks' = Append(translation_blocks,
               BuiltTB(guest_code, current_tb_id, start_ep, initial_cycles))
        /\ saved_contexts' = saved_contexts \o b.contexts
        /\ current_tb_id' = current_tb_id + 1
        /\ UNCHANGED <<guest_code, ILC, RILC, A1, state, sploop_start_index,
                       deferred_stores, ep, ep_in, ep_calls, cycles_ret, start_ret, dispatched, run>>

-----------------------------------------------------------------------------
(* BranchDelayTracker: getCyclesFromPrecedingTB, and getNextStartEP *)

RECURSIVE MinDelay(_, _)
MinDelay(ctxs, min_delay) ==
    IF ctxs = <<>> THEN min_delay
    ELSE MinDelay(Tail(ctxs),
             IF Head(ctxs).remaining_delay < min_delay
             THEN Head(ctxs).remaining_delay ELSE min_delay)

Expired(ctx) == ctx.remaining_delay <= 0

\* a filter that also drops an obligation with one slot left
PendingAboveOne(ctx) == ctx.remaining_delay > 1

Pending(ctx) == ~Expired(ctx)

GetCyclesResult(ctxs) ==
    IF ctxs = <<>> THEN Unconstrained
    ELSE MinDelay(ctxs, ctxs[1].remaining_delay)

GetCyclesFromPrecedingTB ==
    /\ cycles_ret' = GetCyclesResult(saved_contexts)
    /\ saved_contexts' = SelectSeq(saved_contexts, Pending)
    /\ UNCHANGED <<guest_code, translation_blocks, current_tb_id, ILC, RILC, A1,
                   state, sploop_start_index, deferred_stores, ep, ep_in, ep_calls, start_ret,
                   dispatched, run>>

\* the values a read of tb.end_ep_index can yield: the member's value, or any
\* value when the block's translation never assigned it
EndEpIndex(tb) ==
    IF "end_ep_index" \in DOMAIN tb THEN {tb.end_ep_index} ELSE IndeterminateInt

GetNextStartResult(tbs) ==
    IF tbs = <<>> THEN {0} ELSE {e + 1 : e \in EndEpIndex(Last(tbs))}

GetNextStartEP ==
    /\ start_ret' \in GetNextStartResult(translation_blocks)
    /\ UNCHANGED <<guest_code, translation_blocks, saved_contexts, current_tb_id,
                   ILC, RILC, A1, state, sploop_start_index, deferred_stores, ep, ep_in, ep_calls,
                   cycles_ret, dispatched, run>>

-----------------------------------------------------------------------------
(* Loading a stream: addEP and the three canned decoders *)

AddEP(ep_num, cycles, insns) ==
    /\ guest_code' = Append(guest_code, Packet(ep_num, cycles, insns))
    /\ UNCHANGED <<translation_blocks, saved_contexts, current_tb_id, ILC, RILC, A1,
                   state, sploop_start_index, deferred_stores, ep, ep_in, ep_calls, cycles_ret,
                   start_ret, dispatched, run>>

\* appends to whatever is loaded; sploop_start_index is left alone
ParseGuestCode ==
    /\ guest_code' = guest_code \o Fig1Stream
    /\ UNCHANGED <<translation_blocks, saved_contexts, current_tb_id, ILC, RILC, A1,
                   state, sploop_start_index, deferred_stores, ep, ep_in, ep_calls, cycles_ret,
                   start_ret, dispatched, run>>

\* a loader that flushes the translated blocks along with the stream
ParseAndFlush ==
    /\ guest_code' = SploopStream
    /\ sploop_start_index' = 4
    /\ translation_blocks' = <<>>
    /\ UNCHANGED <<saved_contexts, current_tb_id, ILC, RILC, A1,
                   state, deferred_stores, ep, ep_in, ep_calls, cycles_ret, start_ret, dispatched, run>>

ParseSoftwarePipelinedLoop ==
    /\ guest_code' = SploopStream
    /\ sploop_start_index' = 4
    /\ UNCHANGED <<translation_blocks, saved_contexts, current_tb_id, ILC, RILC, A1,
                   state, deferred_stores, ep, ep_in, ep_calls, cycles_ret, start_ret, dispatched, run>>

ParseNestedSoftwarePipelinedLoop ==
    /\ guest_code' = NestedStream
    /\ sploop_start_index' = 6
    /\ UNCHANGED <<translation_blocks, saved_contexts, current_tb_id, ILC, RILC, A1,
                   state, deferred_stores, ep, ep_in, ep_calls, cycles_ret, start_ret, dispatched, run>>

-----------------------------------------------------------------------------
(* Packet reorderer: translateEPWithDeferredStores *)

IsStore(insn) == insn.type = "STORE"

NotStore(insn) == ~IsStore(insn)

\* what the first loop keeps of a Store
DeferredStore(insn) ==
    [operands |-> insn.operands, unit |-> insn.unit, line_num |-> insn.line_num]

\* the Instruction the second loop rebuilds: type, mnemonic, unit, operands
\* and line_num are assigned, predicate is default-constructed, delay_slots
\* and parallel are never assigned and hold what g supplies
StoreInsn(ds, g) ==
    [type |-> "STORE", mnemonic |-> "STW", unit |-> ds.unit,
     delay_slots |-> g[1], predicate |-> "", operands |-> ds.operands,
     line_num |-> ds.line_num, parallel |-> g[2]]

DeferredStores(insns) ==
    LET stores == SelectSeq(insns, IsStore)
    IN  [i \in 1..Len(stores) |-> DeferredStore(stores[i])]

\* the reverse arrangement: the rebuilt Stores ahead of the non-Stores
StoresFirst(insns, g) ==
    LET ds == DeferredStores(insns)
    IN  [i \in 1..Len(ds) |-> StoreInsn(ds[i], g)] \o SelectSeq(insns, NotStore)

\* translated_insns: the non-Stores in order, then the rebuilt Stores in order
TranslatedInsns(insns, g) ==
    LET ds == DeferredStores(insns)
    IN  SelectSeq(insns, NotStore) \o [i \in 1..Len(ds) |-> StoreInsn(ds[i], g)]

\* store_insn is one local of the second loop, rebuilt in place for every
\* Store: its unassigned members hold the same leftover values g throughout a call
Indeterminate == IndeterminateInt \X IndeterminateBool

TranslateEPWithDeferredStores ==
    \E g \in Indeterminate :
        /\ deferred_stores' = DeferredStores(ep.instructions)
        /\ ep' = [ep EXCEPT !.instructions = TranslatedInsns(ep.instructions, g)]
        /\ ep_in' = ep
        /\ ep_calls' = ep_calls + 1
        /\ UNCHANGED <<guest_code, translation_blocks, saved_contexts, current_tb_id,
                       ILC, RILC, A1, state, sploop_start_index, cycles_ret,
                       start_ret, dispatched, run>>

\* the caller fills a packet of its own
SetEP(pkt) ==
    /\ ep' = pkt
    /\ ep_in' = pkt
    /\ ep_calls' = 0
    /\ UNCHANGED <<guest_code, translation_blocks, saved_contexts, current_tb_id,
                   ILC, RILC, A1, state, sploop_start_index, deferred_stores,
                   cycles_ret, start_ret, dispatched, run>>

\* the driver's Store: delay_slots is never assigned, predicate is default-constructed
DriverStw(delay) ==
    [type |-> "STORE", mnemonic |-> "STW", unit |-> ".D2", delay_slots |-> delay,
     predicate |-> "", operands |-> "B2, *B0++", line_num |-> 1, parallel |-> FALSE]

\* the driver's co-issued Load, built the same way
DriverLdw(delay) ==
    [type |-> "LOAD", mnemonic |-> "LDW", unit |-> ".D1", delay_slots |-> delay,
     predicate |-> "", operands |-> "*A1++, A2", line_num |-> 2, parallel |-> TRUE]

\* parallel_ep of the driver: [STW, || LDW]
DriverEP ==
    \E d1 \in IndeterminateInt, d2 \in IndeterminateInt :
        SetEP(Packet(1, 1, <<DriverStw(d1), DriverLdw(d2)>>))

\* instructions a caller builds with createInstruction: a predicated co-issued
\* Store, a plain Store, a co-issued Load and a predicated SUB
SampleInsns ==
    {createInstruction("STORE", "STW", ".D", 0, "B2, *B0++", 9, "[A1]", TRUE),
     createInstruction("STORE", "STH", ".D2", 0, "B0, *B4++", 11, "", FALSE),
     createInstruction("LOAD", "LDW", ".D1", 4, "*A1++, A2", 5, "", TRUE),
     createInstruction("ARITHMETIC", "SUB", ".D2", 0, "B1, 0x1, B1", 6, "[B1]", FALSE)}

-----------------------------------------------------------------------------
(* Phase translations.  They assign tb_id, start_label and packets only:   *)
(* max_cycles, start_ep_index and end_ep_index are never assigned, so the  *)
(* record leaves them out; a read of such a member yields any value of     *)
(* IndeterminateInt.                                                       *)

\* a block that reads the id counter without taking the id passed to it
PhaseTBSharedId(id, label, packets) ==
    [packets |-> packets, tb_id |-> current_tb_id, start_label |-> label]

PhaseTB(id, label, packets) ==
    [packets |-> packets, tb_id |-> id, start_label |-> label]

\* the packets at the 0-based indices from .. to-1 that lie inside the stream
PacketsBetween(code, from, to) ==
    SubSeq(code, from + 1, IF to < Len(code) THEN to ELSE Len(code))

translateNormalLoop(code, id) ==
    PhaseTB(id, "LOOP_STATE_0", PacketsBetween(code, 0, Len(code)))

\* a kernel translation that does not skip the setup packets
translateKernelWhole(code, sploop, id) ==
    PhaseTB(id, "LOOP_STATE_1", PacketsBetween(code, 0, Len(code)))

\* packets before sploop_start_index are skipped when it is set
translateKernelLoop(code, sploop, id) ==
    PhaseTB(id, "LOOP_STATE_1",
            PacketsBetween(code, IF sploop >= 0 THEN sploop ELSE 0, Len(code)))

translateNestedProlog(code, sploop, id) ==
    PhaseTB(id, "NESTED_STATE_0", PacketsBetween(code, 0, sploop))

HasType(pkt, type) ==
    \E x \in 1..Len(pkt.instructions) : pkt.instructions[x].type = type

\* a scan that ends the kernel at the first packet with a Branch or an SPMASK
RECURSIVE InnerScanStopAtSpmask(_, _)
InnerScanStopAtSpmask(code, i) ==
    IF ~InRange(code, i) THEN <<>>
    ELSE LET pkt == code[i + 1]
         IN  IF HasType(pkt, "BRANCH") \/ HasType(pkt, "SPMASK") THEN <<>>
             ELSE <<pkt>> \o InnerScanStopAtSpmask(code, i + 1)

\* the scan of translateNestedInner from 0-based index i: stop at the first
\* packet with a Branch, skip a packet with an SPMASK, keep the others
RECURSIVE InnerScan(_, _)
InnerScan(code, i) ==
    IF ~InRange(code, i) THEN <<>>
    ELSE LET pkt == code[i + 1]
         IN  IF HasType(pkt, "BRANCH") THEN <<>>
             ELSE IF HasType(pkt, "SPMASK") THEN InnerScan(code, i + 1)
             ELSE <<pkt>> \o InnerScan(code, i + 1)

\* size_t i = sploop_start_index: a negative index converts to a value past the end
translateNestedInner(code, sploop, id) ==
    PhaseTB(id, "NESTED_STATE_1", InnerScan(code, sploop))

translateNestedOverlap(code, id) ==
    PhaseTB(id, "NESTED_STATE_2", PacketsBetween(code, OverlapStart, Len(code)))

\* a lookup that never finds a cached block
FindLabelMiss(tbs, label) == -1

\* the id of the first block carrying the label, -1 when there is none
RECURSIVE FindLabel(_, _)
FindLabel(tbs, label) ==
    IF tbs = <<>> THEN -1
    ELSE IF Head(tbs).start_label = label THEN Head(tbs).tb_id
    ELSE FindLabel(Tail(tbs), label)

\* a loop that logs one execution too many
RepeatOneMore(id, count) == [i \in 1..(count + 1) |-> id]

\* the for loop that logs count executions of block id
Repeat(id, count) == [i \in 1..count |-> id]

-----------------------------------------------------------------------------
(* Single-loop phase machine: translateSoftwarePipelinedLoop *)

Called(step) == [run EXCEPT !.steps = Append(@, step)]

TranslateSoftwarePipelinedLoop ==
    /\ run' = Called("single")
    /\ IF state = 0
       THEN LET tb  == translateNormalLoop(guest_code, current_tb_id)
                tb1 == translateKernelLoop(guest_code, sploop_start_index, current_tb_id + 1)
            IN  IF ILC - 1 > 0
                THEN /\ translation_blocks' = translation_blocks \o <<tb, tb1>>
                     /\ current_tb_id' = current_tb_id + 2
                     /\ dispatched' = <<tb.tb_id>> \o Repeat(tb1.tb_id, ILC - 1)
                     /\ ILC' = 0
                     /\ state' = 0
                ELSE /\ translation_blocks' = Append(translation_blocks, tb)
                     /\ current_tb_id' = current_tb_id + 1
                     /\ dispatched' = <<tb.tb_id>>
                     /\ ILC' = ILC - 1
                     /\ state' = 0
       ELSE /\ dispatched' = <<>>
            /\ UNCHANGED <<translation_blocks, current_tb_id, ILC, state>>
    /\ UNCHANGED <<guest_code, saved_contexts, RILC, A1, sploop_start_index,
                   deferred_stores, ep, ep_in, ep_calls, cycles_ret, start_ret>>

-----------------------------------------------------------------------------
(* Nested-loop phase machine: translateNestedLoop *)

\* a reload that forgets to count the outer iteration
ReloadOnly ==
    /\ ILC' = RILC
    /\ A1' = A1
    /\ state' = IF A1 > 0 THEN 2 ELSE 0

\* a reload that never leaves the Overlap phase
ReloadStayOverlap ==
    /\ ILC' = RILC
    /\ A1' = A1 - 1
    /\ state' = 2

\* ILC = RILC; A1--; state = 2 when A1 > 0, else 0
ReloadAndAdvance ==
    /\ ILC' = RILC
    /\ A1' = A1 - 1
    /\ state' = IF A1 - 1 > 0 THEN 2 ELSE 0

NestedProlog ==
    LET tb0 == translateNestedProlog(guest_code, sploop_start_index, current_tb_id)
        tb1 == translateNestedInner(guest_code, sploop_start_index, current_tb_id + 1)
    IN  /\ IF ILC - 1 > 0
           THEN /\ translation_blocks' = translation_blocks \o <<tb0, tb1>>
                /\ current_tb_id' = current_tb_id + 2
                /\ dispatched' = <<tb0.tb_id>> \o Repeat(tb1.tb_id, ILC - 1)
           ELSE /\ translation_blocks' = Append(translation_blocks, tb0)
                /\ current_tb_id' = current_tb_id + 1
                /\ dispatched' = <<tb0.tb_id>>
        /\ ReloadAndAdvance

NestedOverlap ==
    LET cached == FindLabel(translation_blocks, "NESTED_STATE_2")
        tb2 == translateNestedOverlap(guest_code, current_tb_id)
        state2_tb_id == IF cached = -1 THEN tb2.tb_id ELSE cached
        tbs == IF cached = -1 THEN Append(translation_blocks, tb2) ELSE translation_blocks
        state0_tb_id == FindLabel(tbs, "NESTED_STATE_0")
        state1_tb_id == FindLabel(tbs, "NESTED_STATE_1")
    IN  /\ translation_blocks' = tbs
        /\ current_tb_id' = IF cached = -1 THEN current_tb_id + 1 ELSE current_tb_id
        /\ dispatched' =
               <<state2_tb_id>>
               \o (IF state0_tb_id # -1 THEN <<state0_tb_id>> ELSE <<>>)
               \o (IF ILC - 1 > 0 /\ state1_tb_id # -1
                   THEN Repeat(state1_tb_id, ILC - 1) ELSE <<>>)
        /\ ReloadAndAdvance

TranslateNestedLoop ==
    /\ run' = Called("nested")
    /\ IF state = 0 THEN NestedProlog
       ELSE IF state = 2 THEN NestedOverlap
       ELSE /\ dispatched' = <<>>
            /\ UNCHANGED <<translation_blocks, current_tb_id, ILC, A1, state>>
    /\ UNCHANGED <<guest_code, saved_contexts, RILC, sploop_start_index,
                   deferred_stores, ep, ep_in, ep_calls, cycles_ret, start_ret>>

-----------------------------------------------------------------------------
(* The driver's settings of the private counters before a loop is run *)

\* ILC = n; state = 0
SetSingle(n) ==
    /\ ILC' = n
    /\ state' = 0
    /\ run' = [kind |-> "single", n |-> n, r |-> RILC, m |-> A1,
               ntb |-> Len(translation_blocks), steps |-> <<>>]
    /\ UNCHANGED <<guest_code, translation_blocks, saved_contexts, current_tb_id,
                   RILC, A1, sploop_start_index, deferred_stores, ep, ep_in, ep_calls, cycles_ret,
                   start_ret, dispatched>>

\* ILC = n; RILC = r; A1 = m; state = 0
SetNested(n, r, m) ==
    /\ ILC' = n
    /\ RILC' = r
    /\ A1' = m
    /\ state' = 0
    /\ run' = [kind |-> "nested", n |-> n, r |-> r, m |-> m,
               ntb |-> Len(translation_blocks), steps |-> <<>>]
    /\ UNCHANGED <<guest_code, translation_blocks, saved_contexts, current_tb_id,
                   sploop_start_index, deferred_stores, ep, ep_in, ep_calls, cycles_ret, start_ret,
                   dispatched>>

-----------------------------------------------------------------------------
(* Construction *)

EmptyPacket == Packet(0, 0, <<>>)

Init ==
    /\ guest_code = <<>>
    /\ translation_blocks = <<>>
    /\ saved_contexts = <<>>
    /\ current_tb_id = 0
    /\ ILC = 0
    /\ RILC = 0
    /\ A1 = 0
    /\ state = 0
    /\ sploop_start_index = -1
    /\ deferred_stores = <<>>
    /\ ep = EmptyPacket
    /\ ep_in = EmptyPacket
    /\ ep_calls = 0
    /\ cycles_ret = Unconstrained
    /\ start_ret = 0
    /\ dispatched = <<>>
    /\ run = [kind |-> "none", n |-> 0, r |-> 0, m |-> 0, ntb |-> 0, steps |-> <<>>]

-----------------------------------------------------------------------------
(* Straight-line building over streams assembled packet by packet *)

AddSample ==
    \E kind \in SampleKinds :
        /\ Len(guest_code) < MaxGeneric
        /\ translation_blocks = <<>>      \* the stream is assembled before the first build
        /\ AddEP(Len(guest_code) + 1, SampleCycles(kind),
                 SampleInstructions(kind, Len(guest_code) + 1))

BuildAny ==
    \E start_ep \in 0..Len(guest_code), initial_cycles \in Budgets \cup {cycles_ret} :
        Build(start_ep, initial_cycles)

NextBuild ==
    \/ AddSample
    \/ BuildAny
    \/ GetCyclesFromPrecedingTB

SpecBuild == Init /\ [][NextBuild]_vars

-----------------------------------------------------------------------------
(* The pipelined-loop machines driven over the canned loop streams *)

LoadLoop ==
    /\ translation_blocks = <<>>         \* the loop stream is loaded before the first step
    /\ \/ ParseSoftwarePipelinedLoop
       \/ ParseNestedSoftwarePipelinedLoop
       \/ guest_code = <<>> /\ ParseGuestCode   \* a stream with no kernel-start index

StartSingle ==
    \E n \in 0..MaxCount :
        /\ run.kind = "none"
        /\ SetSingle(n)

StartNested ==
    \E n \in 0..MaxCount, r \in 0..MaxCount, m \in 0..MaxOuter :
        /\ run.kind = "none"
        /\ SetNested(n, r, m)

StepSingle ==
    /\ run.kind # "none"                 \* the driver sets the counters first
    /\ Len(run.steps) < MaxCalls
    /\ Len(translation_blocks) < MaxPhaseTBs
    /\ TranslateSoftwarePipelinedLoop

StepNested ==
    /\ run.kind # "none"
    /\ Len(run.steps) < MaxCalls
    /\ Len(translation_blocks) < MaxPhaseTBs
    /\ TranslateNestedLoop

NextLoop ==
    \/ LoadLoop
    \/ StartSingle
    \/ StartNested
    \/ StepSingle
    \/ StepNested

SpecLoop == Init /\ [][NextLoop]_vars

-----------------------------------------------------------------------------
(* The reorderer applied to packets a caller assembles *)

FillEP ==
    \E len \in 0..MaxInsns :
        \E insns \in [1..len -> SampleInsns] :
            /\ ep_calls = 0
            /\ SetEP(Packet(1, 1, insns))

ReorderEP ==
    /\ ep_calls < MaxReorders
    /\ TranslateEPWithDeferredStores

FillDriverEP ==
    /\ ep_calls = 0
    /\ DriverEP

NextReorder ==
    \/ FillEP
    \/ FillDriverEP
    \/ ReorderEP

SpecReorder == Init /\ [][NextReorder]_vars

-----------------------------------------------------------------------------
(* A build over a stream longer than the sentinel: one-cycle packets, the  *)
(* first a Branch whose delay-slot count equals the sentinel               *)

LongLen == Unconstrained + 2

LongBudget == Unconstrained + LongLen

\* the stream LongLen calls of addEP leave behind
LongStream ==
    [i \in 1..LongLen |->
        Packet(i, 1,
               IF i = 1
               THEN <<createInstruction("BRANCH", "B", ".S2", Unconstrained, "FAR", i, "", FALSE)>>
               ELSE <<createInstruction("NOP", "NOP", "", 0, "", i, "", FALSE)>>)]

InitLong ==
    /\ guest_code = LongStream
    /\ translation_blocks = <<>>
    /\ saved_contexts = <<>>
    /\ current_tb_id = 0
    /\ ILC = 0
    /\ RILC = 0
    /\ A1 = 0
    /\ state = 0
    /\ sploop_start_index = -1
    /\ deferred_stores = <<>>
    /\ ep = EmptyPacket
    /\ ep_in = EmptyPacket
    /\ ep_calls = 0
    /\ cycles_ret = Unconstrained
    /\ start_ret = 0
    /\ dispatched = <<>>
    /\ run = [kind |-> "none", n |-> 0, r |-> 0, m |-> 0, ntb |-> 0, steps |-> <<>>]

BuildLong ==
    \E start_ep \in 0..MaxLongStart, initial_cycles \in {LongBudget, cycles_ret} :
        Build(start_ep, initial_cycles)

NextLong ==
    \/ BuildLong
    \/ GetCyclesFromPrecedingTB
    \/ GetNextStartEP

SpecLong == InitLong /\ [][NextLong]_vars

-----------------------------------------------------------------------------
(* All operations together, in the order of the driver: builds chained     *)
(* over a loaded stream, a packet reordered, then a stream loaded and one   *)
(* loop set up and stepped                                                  *)

\* no loop has been set up yet
BeforeLoops == run.kind = "none"

LoadAny ==
    /\ run.steps = <<>>
    /\ \/ ParseSoftwarePipelinedLoop
       \/ ParseNestedSoftwarePipelinedLoop
       \/ guest_code = <<>> /\ ParseGuestCode

\* the driver's chained build: the start index is what getNextStartEP returns
\* at the call, the budget 1000 or what getCyclesFromPrecedingTB returned
BuildNext ==
    \E start_ep \in GetNextStartResult(translation_blocks),
       initial_cycles \in {Unconstrained, cycles_ret} :
        /\ BeforeLoops
        /\ Build(start_ep, initial_cycles)

MinOutstanding ==
    /\ BeforeLoops
    /\ GetCyclesFromPrecedingTB

\* a packet without Stores, built with createInstruction
FillLoadEP ==
    /\ BeforeLoops
    /\ ep_calls = 0
    /\ SetEP(Packet(1, 1, <<createInstruction("LOAD", "LDW", ".D1", 4, "*A1++, A2", 5, "", FALSE)>>))

ReorderAny ==
    /\ BeforeLoops
    /\ ReorderEP

SetAnySingle ==
    \E n \in 1..MaxSet :
        /\ BeforeLoops
        /\ SetSingle(n)

SetAnyNested ==
    \E n \in 1..MaxSet, r \in 1..MaxSet, m \in 1..MaxSet :
        /\ BeforeLoops
        /\ SetNested(n, r, m)

Next ==
    \/ LoadAny
    \/ BuildNext
    \/ MinOutstanding
    \/ FillLoadEP
    \/ ReorderAny
    \/ SetAnySingle
    \/ SetAnyNested
    \/ StepSingle
    \/ StepNested

Spec == Init /\ [][Next]_vars

-----------------------------------------------------------------------------
(* The nested machine over a loop stream the caller extends with addEP *)

TailKinds == {"spmask", "spmask_add", "add", "branch"}

\* packets a caller appends: an SPMASK marker alone, an SPMASK marker with a
\* co-issued ADD, an ADD, a Branch
TailInstructions(kind, line) ==
    CASE kind = "spmask" -> <<createInstruction("SPMASK", "SPMASK", ".D", 0, "", line, "", FALSE)>>
      [] kind = "spmask_add" ->
             << createInstruction("SPMASK", "SPMASK", ".D", 0, "", line, "", FALSE),
                createInstruction("ARITHMETIC", "ADD", ".L1", 0, "A6, 4, A4", line, "[A1]", TRUE) >>
      [] kind = "add" -> <<createInstruction("ARITHMETIC", "ADD", ".L1", 0, "A4, A2, A4", line, "", FALSE)>>
      [] kind = "branch" -> <<createInstruction("BRANCH", "B", ".S2", 5, "LOOP", line, "", FALSE)>>

\* the stream the last loader left, before any addEP
LoadedStream ==
    IF sploop_start_index = 4 THEN SploopStream
    ELSE IF sploop_start_index = 6 THEN NestedStream
    ELSE <<>>

LoadKernelStream ==
    /\ translation_blocks = <<>>
    /\ \/ ParseSoftwarePipelinedLoop
       \/ ParseNestedSoftwarePipelinedLoop

AddTail ==
    \E kind \in TailKinds :
        /\ translation_blocks = <<>>
        /\ Len(guest_code) < Len(LoadedStream) + MaxTail
        /\ AddEP(Len(guest_code) + 1, 1, TailInstructions(kind, Len(guest_code) + 1))

NextKernel ==
    \/ LoadKernelStream
    \/ AddTail
    \/ SetAnyNested
    \/ StepNested

SpecKernel == Init /\ [][NextKernel]_vars

-----------------------------------------------------------------------------
(* Nested loops run one after another, a stream loaded before each *)

\* a decoder called while no loop is under way
LoadBetween ==
    /\ state = 0
    /\ \/ ParseSoftwarePipelinedLoop
       \/ ParseNestedSoftwarePipelinedLoop
       \/ guest_code = <<>> /\ ParseGuestCode

\* the driver's settings of the nested counters, made again for a further loop
RestartNested ==
    \E n \in 1..MaxSet, r \in 1..MaxSet, m \in 1..MaxSet :
        /\ state = 0
        /\ SetNested(n, r, m)

NextStreams ==
    \/ LoadBetween
    \/ RestartNested
    \/ StepNested

SpecStreams == Init /\ [][NextStreams]_vars

-----------------------------------------------------------------------------
(* Properties of the builder, checked under SpecBuild.  The stream does    *)
(* not change once a block exists there, so guest_code is the stream every *)
(* block of translation_blocks was built from.                             *)

IsBuilt(tb) == tb.start_label = ""

BuiltTBs == {translation_blocks[i] : i \in 1..Len(translation_blocks)}

\* C1: a build from a start index inside the stream returns a block with at
\* least one packet and end index >= start index, whatever the budget.
C1_BuildNonEmpty ==
    \A tb \in BuiltTBs :
        (IsBuilt(tb) /\ InRange(guest_code, tb.start_ep_index))
            => (Len(tb.packets) >= 1 /\ tb.end_ep_index >= tb.start_ep_index)

\* C2: when every packet costs at least one cycle and the packet at relative
\* position k holds a Branch with delay d >= 0, the block has no packet at a
\* relative position greater than k + d.
C2_BranchDelayClamp ==
    \A tb \in BuiltTBs :
        (IsBuilt(tb) /\ \A j \in 1..Len(guest_code) : guest_code[j].cycles >= 1)
            => \A k \in 1..Len(tb.packets) :
                   \A x \in 1..Len(tb.packets[k].instructions) :
                       LET insn == tb.packets[k].instructions[x]
                       IN  (insn.type = "BRANCH" /\ insn.delay_slots >= 0)
                               => Len(tb.packets) - 1 <= (k - 1) + insn.delay_slots

-----------------------------------------------------------------------------
(* Properties of the phase machines, checked under SpecLoop *)

AllTBs == {translation_blocks[i] : i \in 1..Len(translation_blocks)}

\* the blocks translated since the driver set the counters
NewTBs == SubSeq(translation_blocks, run.ntb + 1, Len(translation_blocks))

OnlySteps(kind) == \A i \in 1..Len(run.steps) : run.steps[i] = kind

\* C3: after any sequence of steps of a loop started with ILC >= 1, the
\* produced blocks hold at most one block per phase label.
C3_TranslateOnce ==
    (run.kind # "none" /\ run.n >= 1) =>
    \A i, j \in 1..Len(translation_blocks) :
        (i # j /\ translation_blocks[i].start_label # "")
            => translation_blocks[i].start_label # translation_blocks[j].start_label

\* C4: ILC, RILC and A1 are never negative.
C4_CountersNonNegative == ILC >= 0 /\ RILC >= 0 /\ A1 >= 0

\* C5: one single-loop step from ILC = n >= 1 translates the Prolog block,
\* translates the Kernel block exactly when n > 1, logs the Prolog block once
\* and the Kernel block n - 1 times, and ends completed (state 0) with ILC = 0.
C5_SingleLoop ==
    (run.kind = "single" /\ run.steps = <<"single">> /\ run.n >= 1)
        => /\ Len(NewTBs) = (IF run.n > 1 THEN 2 ELSE 1)
           /\ NewTBs[1].start_label = "LOOP_STATE_0"
           /\ run.n > 1 => NewTBs[2].start_label = "LOOP_STATE_1"
           /\ Len(dispatched) = run.n
           /\ dispatched[1] = NewTBs[1].tb_id
           /\ \A i \in 2..run.n : dispatched[i] = NewTBs[2].tb_id
           /\ ILC = 0
           /\ state = 0

\* C5 witness: the run with ILC = 8, whose Kernel block is logged 7 times.
C5_Witness ==
    /\ run.kind = "single" /\ run.steps = <<"single">> /\ run.n = 8
    /\ Len(NewTBs) = 2
    /\ Cardinality({i \in 1..Len(dispatched) : dispatched[i] = NewTBs[2].tb_id}) = 7
    /\ ILC = 0

\* C6: a nested run from ILC = RILC = n >= 2 and A1 = m >= 2.  The first step
\* translates Prolog and Kernel, logs Prolog once and Kernel n - 1 times,
\* reloads ILC = n, leaves A1 = m - 1 and moves to Overlap.  Each of the next
\* m - 1 steps logs the one Overlap block, the Prolog block and n - 1 Kernel
\* executions with no further translation; after step k, A1 = m - k, and the
\* machine is completed (state 0) exactly after step m.
C6_NestedLoop ==
    (/\ run.kind = "nested" /\ OnlySteps("nested")
     /\ run.n = run.r /\ run.n >= 2 /\ run.m >= 2
     /\ Len(run.steps) \in 1..run.m)
        => LET k == Len(run.steps)
           IN  /\ Len(NewTBs) = (IF k = 1 THEN 2 ELSE 3)
               /\ NewTBs[1].start_label = "NESTED_STATE_0"
               /\ NewTBs[2].start_label = "NESTED_STATE_1"
               /\ k >= 2 => NewTBs[3].start_label = "NESTED_STATE_2"
               /\ dispatched =
                      (IF k = 1 THEN <<>> ELSE <<NewTBs[3].tb_id>>)
                      \o <<NewTBs[1].tb_id>>
                      \o [i \in 1..(run.n - 1) |-> NewTBs[2].tb_id]
               /\ ILC = run.n
               /\ A1 = run.m - k
               /\ state = (IF k < run.m THEN 2 ELSE 0)

\* C6 witness: the run n = 7, m = 3 after its third step: three phase blocks,
\* six Kernel executions in the last iteration, completed with A1 = 0.
C6_Witness ==
    /\ run.kind = "nested" /\ OnlySteps("nested") /\ Len(run.steps) = 3
    /\ run.n = 7 /\ run.r = 7 /\ run.m = 3
    /\ Len(NewTBs) = 3
    /\ Len(dispatched) = 8
    /\ A1 = 0 /\ state = 0

\* C10: every block has a defined start and end index with
\* end index = start index + number of packets - 1.
C10_IndexInvariant ==
    \A tb \in AllTBs :
        /\ {"start_ep_index", "end_ep_index"} \subseteq DOMAIN tb
        /\ tb.end_ep_index = tb.start_ep_index + Len(tb.packets) - 1

-----------------------------------------------------------------------------
(* Properties of the reorderer, checked under SpecReorder: ep is the       *)
(* packet after the last reorder call, ep_in the packet before it.         *)

\* what identifies an instruction of a packet
InsnKey(insn) == <<insn.line_num, insn.type, insn.operands, insn.unit>>

KeysOf(insns) == [i \in 1..Len(insns) |-> InsnKey(insns[i])]

\* C7: after a reorder the non-Stores come first, unchanged and in their
\* original relative order, followed by the Stores in their original
\* relative order.
C7_StoresLast ==
    ep_calls >= 1 =>
        LET inp == ep_in.instructions
            out == ep.instructions
            ns  == Len(SelectSeq(inp, NotStore))
        IN  /\ Len(out) = Len(inp)
            /\ SubSeq(out, 1, ns) = SelectSeq(inp, NotStore)
            /\ KeysOf(SubSeq(out, ns + 1, Len(out))) = KeysOf(SelectSeq(inp, IsStore))

\* C7 witness: the driver's [Store(X), Load(Y, co-issued)] has become
\* [Load(Y), Store(X)].
C7_Witness ==
    /\ ep_calls = 1
    /\ KeysOf(ep_in.instructions) = <<InsnKey(DriverStw(0)), InsnKey(DriverLdw(0))>>
    /\ KeysOf(ep.instructions) = <<InsnKey(DriverLdw(0)), InsnKey(DriverStw(0))>>

\* C8: a second reorder returns the packet of the first, instruction for
\* instruction with the same field values.
C8_Idempotent == ep_calls >= 2 => ep = ep_in

CountIn(insns, insn) == Cardinality({i \in 1..Len(insns) : insns[i] = insn})

\* C9: the multiset of instructions after a reorder equals the multiset
\* before it, every field of every instruction kept.
C9_SameInstructions ==
    ep_calls >= 1 =>
        \A i \in 1..Len(ep_in.instructions) :
            CountIn(ep.instructions, ep_in.instructions[i])
                = CountIn(ep_in.instructions, ep_in.instructions[i])

-----------------------------------------------------------------------------
(* Error handling of the phase machines, checked under SpecLoop *)

\* the step kind invoked by the transition, "" when the transition is no step
StepTaken == IF Len(run'.steps) = Len(run.steps) + 1 THEN Last(run'.steps) ELSE ""

\* the step decrements ILC (and, in the nested machine, A1) in this state
Decrements(kind) ==
    \/ kind = "single" /\ state = 0
    \/ kind = "nested" /\ state \in {0, 2}

\* the decrement would take a counter below zero
WouldUnderflow(kind) ==
    /\ Decrements(kind)
    /\ \/ ILC = 0
       \/ kind = "nested" /\ A1 = 0

\* C11: a step that would take ILC, RILC or A1 below zero fails at once: it
\* stores no counter, changes no phase and translates nothing.
C11_UnderflowFails ==
    [][WouldUnderflow(StepTaken)
          => UNCHANGED <<ILC, RILC, A1, state, translation_blocks, current_tb_id>>]_vars

KernelScoped == {"LOOP_STATE_1", "NESTED_STATE_1", "NESTED_STATE_2"}

\* C12: while the kernel-start index is unset (-1), no kernel-scoped
\* translation (single-loop Kernel, nested Kernel, Overlap) produces a block.
C12_KernelNeedsBoundary ==
    sploop_start_index = -1 => \A tb \in AllTBs : tb.start_label \notin KernelScoped

-----------------------------------------------------------------------------
(* Error handling of the builder, checked under SpecBuild *)

\* C13: a build whose start index lies beyond the stream fails: it returns no
\* block and consumes no id, so every built block starts inside the stream.
C13_StartInRange ==
    \A tb \in BuiltTBs : IsBuilt(tb) => InRange(guest_code, tb.start_ep_index)

-----------------------------------------------------------------------------
(* Completion and the Overlap cache, checked under SpecLoop *)

\* a machine started with positive counters has been stepped and has reported
\* completion, which the code records as state 0
Done ==
    /\ run.kind # "none" /\ Len(run.steps) >= 1
    /\ run.n >= 1 /\ (run.kind = "nested" => run.m >= 1)
    /\ state = 0

\* C14: once a machine is Done, a further step translates nothing, logs no
\* execution, changes no counter and leaves the phase Done.
C14_DoneTerminal ==
    [][(Done /\ StepTaken # "")
          => /\ UNCHANGED <<translation_blocks, current_tb_id, ILC, RILC, A1, state>>
             /\ dispatched' = <<>>]_vars

\* positions of the Overlap blocks in a block list
OverlapIdx(tbs) == {i \in 1..Len(tbs) : tbs[i].start_label = "NESTED_STATE_2"}

\* C15: every Overlap step leaves exactly one Overlap block: the first one
\* translates and caches it, a later one translates nothing, consumes no id,
\* and each logs the execution of that one block first.
C15_OverlapOnce ==
    [][(StepTaken = "nested" /\ state = 2)
          => LET before == OverlapIdx(translation_blocks)
                 after  == OverlapIdx(translation_blocks')
             IN  /\ Cardinality(after) = 1
                 /\ before = {} => Len(translation_blocks') = Len(translation_blocks) + 1
                 /\ before # {} => UNCHANGED <<translation_blocks, current_tb_id>>
                 /\ \A i \in after : dispatched'[1] = translation_blocks'[i].tb_id]_vars

\* C15 witness: a run of at least three outer iterations after its second
\* Overlap step, with the one Overlap block logged first.
C15_Witness ==
    /\ run.kind = "nested" /\ OnlySteps("nested") /\ Len(run.steps) >= 3
    /\ run.n >= 1 /\ run.m >= 3
    /\ Cardinality(OverlapIdx(translation_blocks)) = 1
    /\ \A i \in OverlapIdx(translation_blocks) : dispatched[1] = translation_blocks[i].tb_id

-----------------------------------------------------------------------------
(* Properties of the block list across all operations, checked under Spec *)

\* C16: block ids are unique and increase: every block has an id greater than
\* the id of every block created before it, and below the next id to assign.
C16_IdsMonotonic ==
    /\ \A i, j \in 1..Len(translation_blocks) :
           i < j => translation_blocks[i].tb_id < translation_blocks[j].tb_id
    /\ \A i \in 1..Len(translation_blocks) : translation_blocks[i].tb_id < current_tb_id

\* C16 witness: a built block followed by the two blocks of a loop step.
C16_Witness ==
    /\ Len(translation_blocks) >= 3
    /\ IsBuilt(translation_blocks[1])
    /\ translation_blocks[Len(translation_blocks) - 1].start_label \in {"LOOP_STATE_0", "NESTED_STATE_0"}
    /\ translation_blocks[Len(translation_blocks)].start_label \in {"LOOP_STATE_1", "NESTED_STATE_1"}

\* C17: no operation removes a block or changes a block already translated:
\* the block list after a step extends the block list before it.
C17_CacheAppendOnly ==
    [][/\ Len(translation_blocks') >= Len(translation_blocks)
       /\ SubSeq(translation_blocks', 1, Len(translation_blocks)) = translation_blocks]_vars

\* C17 witness: a block built from a stream that has since been replaced is
\* still there, unchanged in front of a phase block, after a reorder.
C17_Witness ==
    /\ ep_calls >= 1
    /\ Len(translation_blocks) >= 2
    /\ LET tb == translation_blocks[1]
       IN  /\ IsBuilt(tb) /\ Len(tb.packets) >= 1
           /\ \/ tb.end_ep_index + 1 > Len(guest_code)
              \/ tb.packets # SubSeq(guest_code, tb.start_ep_index + 1, tb.end_ep_index + 1)
    /\ ~IsBuilt(translation_blocks[Len(translation_blocks)])

-----------------------------------------------------------------------------
(* The reference budget rule, checked against the builder under SpecBuild *)

BranchDelays(pkt) ==
    {pkt.instructions[x].delay_slots :
        x \in {y \in 1..Len(pkt.instructions) : pkt.instructions[y].type = "BRANCH"}}

\* remaining budget after the packet: charged, then lowered to the packet's
\* minimum Branch delay when that is smaller
RefRemaining(pkt, remaining) ==
    LET charged == remaining - pkt.cycles
        lower   == {d \in BranchDelays(pkt) : d < charged}
    IN  IF lower = {} THEN charged
        ELSE CHOOSE d \in lower : \A e \in lower : d <= e

\* number of packets the reference takes from 0-based index i: the packet at
\* i, then on while the remaining budget is positive and the stream goes on
RECURSIVE RefCount(_, _, _)
RefCount(code, i, remaining) ==
    LET left == RefRemaining(code[i + 1], remaining)
    IN  IF left <= 0 \/ i + 1 >= Len(code) THEN 1
        ELSE 1 + RefCount(code, i + 1, left)

\* C18: a block built from a start index inside the stream holds exactly the
\* packets the reference budget rule takes for its start index and budget.
C18_BudgetRule ==
    \A tb \in BuiltTBs :
        (IsBuilt(tb) /\ InRange(guest_code, tb.start_ep_index))
            => tb.packets = SubSeq(guest_code, tb.start_ep_index + 1,
                                   tb.start_ep_index
                                     + RefCount(guest_code, tb.start_ep_index, tb.max_cycles))

-----------------------------------------------------------------------------
(* Kernel executions of an Overlap step, checked under SpecLoop *)

KernelIds ==
    {translation_blocks[i].tb_id :
        i \in {j \in 1..Len(translation_blocks) :
                  translation_blocks[j].start_label = "NESTED_STATE_1"}}

\* C19: an Overlap step entered with ILC reloaded to RILC >= 2 logs the
\* Overlap block, the Prolog block and then RILC - 1 executions of the Kernel
\* block, also when the first inner loop ran with ILC = 1.
C19_OverlapKernel ==
    (/\ run.kind = "nested" /\ OnlySteps("nested")
     /\ run.n >= 1 /\ run.r >= 2 /\ run.m >= 2
     /\ Len(run.steps) \in 2..run.m)
        => /\ Len(dispatched) = 2 + (run.r - 1)
           /\ \A i \in 3..Len(dispatched) : dispatched[i] \in KernelIds

-----------------------------------------------------------------------------
(* Contents of the nested Kernel block, checked under SpecKernel, where    *)
(* the stream does not change once a block exists                          *)

TypesOf(pkt) == {pkt.instructions[x].type : x \in 1..Len(pkt.instructions)}

\* 0-based index of the first packet at or after k that holds a Branch, the
\* stream length when there is none
KernelEnd(code, k) ==
    LET branches == {i \in k..(Len(code) - 1) : "BRANCH" \in TypesOf(code[i + 1])}
    IN  IF branches = {} THEN Len(code)
        ELSE CHOOSE i \in branches : \A j \in branches : i <= j

OnlySpmask(pkt) == TypesOf(pkt) = {"SPMASK"}

NotOnlySpmask(pkt) == ~OnlySpmask(pkt)

NoSpmask(pkt) == "SPMASK" \notin TypesOf(pkt)

KernelBlocks == {tb \in AllTBs : tb.start_label = "NESTED_STATE_1"}

-----------------------------------------------------------------------------
(* C21: contents of the single loop's Prolog and Kernel blocks *)

\* the blocks a step appends to the cache
Appended == {translation_blocks'[i] : i \in (Len(translation_blocks) + 1)..Len(translation_blocks')}

\* C21: with the kernel-start index set to s, a block translated with label
\* LOOP_STATE_0 holds the whole stream in stream order, and a block translated
\* with label LOOP_STATE_1 holds exactly the packets at indices s..end
C21_SingleLoopContents ==
    [][\A tb \in Appended :
          /\ tb.start_label = "LOOP_STATE_0" => tb.packets = guest_code
          /\ (tb.start_label = "LOOP_STATE_1" /\ sploop_start_index >= 0)
                => /\ sploop_start_index <= Len(guest_code)
                   /\ tb.packets = SubSeq(guest_code, sploop_start_index + 1, Len(guest_code))]_vars

\* a Kernel block that is a proper, non-empty suffix of the Prolog block
C21_Witness ==
    /\ sploop_start_index > 0
    /\ \E i, j \in 1..Len(translation_blocks) :
          /\ translation_blocks[i].start_label = "LOOP_STATE_0"
          /\ translation_blocks[j].start_label = "LOOP_STATE_1"
          /\ translation_blocks[i].packets = guest_code
          /\ translation_blocks[j].packets # <<>>
          /\ Len(translation_blocks[j].packets) = Len(guest_code) - sploop_start_index

-----------------------------------------------------------------------------
(* C22: minOutstanding *)

\* the remaining delays held by the tracker
DelaysHeld == {saved_contexts[i].remaining_delay : i \in 1..Len(saved_contexts)}

\* a step of getCyclesFromPrecedingTB: it neither loads a packet nor adds a block
TrackerStep == guest_code' = guest_code /\ translation_blocks' = translation_blocks

\* C22: getCyclesFromPrecedingTB returns the smallest remaining delay held on
\* entry, or 1000 when nothing is held; it removes exactly the obligations with
\* remaining delay <= 0 and leaves the others in place, unchanged and in order
C22_MinOutstanding ==
    [][TrackerStep =>
          /\ cycles_ret' = IF saved_contexts = <<>> THEN 1000
                           ELSE CHOOSE d \in DelaysHeld : \A e \in DelaysHeld : d <= e
          /\ saved_contexts' = SelectSeq(saved_contexts, LAMBDA ctx : ctx.remaining_delay > 0)]_vars

\* one build recorded delays 2, 1 and 0; the call returned 0, removed that
\* obligation and kept the two with slots left
C22_Witness ==
    /\ Len(translation_blocks) = 1
    /\ cycles_ret = 0
    /\ Len(saved_contexts) = 2
    /\ \A i \in 1..Len(saved_contexts) : saved_contexts[i].remaining_delay > 0

-----------------------------------------------------------------------------
(* C23: obligations kept across builds *)

\* the source lines of the Branch instructions in a block's packets
BranchLines(tb) ==
    UNION {{pkt.instructions[x].line_num :
               x \in {y \in 1..Len(pkt.instructions) : pkt.instructions[y].type = "BRANCH"}} :
           pkt \in {tb.packets[p] : p \in 1..Len(tb.packets)}}

\* an obligation recorded by a build before the last one and not by the last one
Stale(ctx) ==
    /\ ctx.instruction_line \notin BranchLines(Last(translation_blocks))
    /\ \E j \in 1..(Len(translation_blocks) - 1) :
          ctx.instruction_line \in BranchLines(translation_blocks[j])

\* no call of getCyclesFromPrecedingTB would remove anything
NothingToDrop == \A i \in 1..Len(saved_contexts) : saved_contexts[i].remaining_delay > 0

\* C23: once a build and the build after it are done, and the tracker has
\* dropped all it can drop, no obligation of the earlier build is still held
\* when the following build starts
C23_NoStaleObligation ==
    (Len(translation_blocks) >= 2 /\ NothingToDrop)
        => \A i \in 1..Len(saved_contexts) : ~Stale(saved_contexts[i])

-----------------------------------------------------------------------------
(* C24: what a build records *)

\* the instructions of a sequence of packets, in order
RECURSIVE Flatten(_)
Flatten(packets) ==
    IF packets = <<>> THEN <<>>
    ELSE Head(packets).instructions \o Flatten(Tail(packets))

\* the Branch instructions of a block's packets, in order
BranchesOf(tb) == SelectSeq(Flatten(tb.packets), LAMBDA insn : insn.type = "BRANCH")

\* a step of translateWithConstraint followed by the push_back of its block
BuildStep == Len(translation_blocks') = Len(translation_blocks) + 1

\* C24: a build appends to the tracker one obligation per Branch instruction of
\* the packets of its block, carrying the Branch's delay-slot count, target and
\* source line, and nothing else; what the tracker held stays in front
C24_RecordsEveryBranch ==
    [][BuildStep =>
          LET b == BranchesOf(Last(translation_blocks'))
          IN  /\ Len(saved_contexts') = Len(saved_contexts) + Len(b)
              /\ SubSeq(saved_contexts', 1, Len(saved_contexts)) = saved_contexts
              /\ \A k \in 1..Len(b) :
                    LET ctx == saved_contexts'[Len(saved_contexts) + k]
                    IN  /\ ctx.remaining_delay = b[k].delay_slots
                        /\ ctx.target_address = b[k].operands
                        /\ ctx.instruction_line = b[k].line_num]_vars

\* one block with a two-Branch packet and a packet without a Branch, built from
\* a stream whose next packet holds a Branch the block leaves out
C24_Witness ==
    /\ Len(translation_blocks) = 1
    /\ LET tb == translation_blocks[1]
       IN  /\ Len(tb.packets) = 2
           /\ Len(BranchesOf(tb)) = 2
           /\ Len(guest_code) = 3
           /\ HasType(guest_code[3], "BRANCH")
           /\ Len(saved_contexts) = 2

-----------------------------------------------------------------------------
(* C25: stream order inside a block *)

\* a is obtained from b by leaving packets out, the others keeping their order
RECURSIVE IsSubsequence(_, _)
IsSubsequence(a, b) ==
    IF a = <<>> THEN TRUE
    ELSE IF b = <<>> THEN FALSE
    ELSE IF Head(a) = Head(b) THEN IsSubsequence(Tail(a), Tail(b))
    ELSE IsSubsequence(a, Tail(b))

\* packet j of the block is the stream's packet at start index + j
ContiguousRun(tb, code) ==
    \A j \in 0..(Len(tb.packets) - 1) :
        /\ InRange(code, tb.start_ep_index + j)
        /\ tb.packets[j + 1] = code[tb.start_ep_index + j + 1]

\* C25: the block of a build is the contiguous run of the stream that starts at
\* its start index, no packet skipped, duplicated or reordered; the packets of
\* a phase block are a subsequence of the stream in increasing index order
C25_StreamOrder ==
    [][\A tb \in Appended :
          IF "start_ep_index" \in DOMAIN tb
          THEN ContiguousRun(tb, guest_code)
          ELSE IsSubsequence(tb.packets, guest_code)]_vars

\* a build of several packets that starts past the head of its stream, and a
\* phase block of several packets taken from the stream loaded after it
C25_Witness ==
    \E i, j \in 1..Len(translation_blocks) :
        /\ "start_ep_index" \in DOMAIN translation_blocks[i]
        /\ translation_blocks[i].start_ep_index > 0
        /\ Len(translation_blocks[i].packets) >= 2
        /\ "start_ep_index" \notin DOMAIN translation_blocks[j]
        /\ Len(translation_blocks[j].packets) >= 2
        /\ Len(translation_blocks[j].packets) < Len(guest_code)
        /\ IsSubsequence(translation_blocks[j].packets, guest_code)

-----------------------------------------------------------------------------
(* C26: termination of the nested loop *)

\* a nested run started in Prolog with ILC >= 1, RILC >= 1 and A1 = m >= 1,
\* stepped by translateNestedLoop only, no more than m times
NestedRun ==
    /\ run.kind = "nested" /\ OnlySteps("nested")
    /\ run.n >= 1 /\ run.r >= 1 /\ run.m >= 1
    /\ Len(run.steps) <= run.m

\* C26: every invocation of the nested step lowers A1 by exactly 1; the
\* machine is in Overlap after fewer than m invocations and Done, with A1 = 0,
\* after exactly m invocations
C26_NestedTerminates ==
    NestedRun
        => LET k == Len(run.steps)
           IN  /\ A1 = run.m - k
               /\ (k >= 1 /\ k < run.m) => state = 2
               /\ k = run.m => (state = 0 /\ A1 = 0)

\* a run of three outer iterations that went through Overlap and is Done
C26_Witness ==
    /\ NestedRun
    /\ run.m = MaxOuter
    /\ Len(run.steps) = run.m
    /\ state = 0 /\ A1 = 0
    /\ OverlapIdx(translation_blocks) # {}

-----------------------------------------------------------------------------
(* C27: chained builds *)

\* a build whose block is appended
ChainedBuild == BuildStep /\ IsBuilt(Last(translation_blocks'))

\* C27: a build chained on getNextStartEP starts at 0 when no block exists and
\* right after the last block otherwise, so consecutive blocks are disjoint,
\* in stream order and gap-free; a build that starts inside the stream moves
\* the next start index forward by at least one packet
C27_BuildsTile ==
    [][ChainedBuild =>
          LET tb == Last(translation_blocks')
          IN  /\ tb.start_ep_index \in GetNextStartResult(translation_blocks)
              /\ InRange(guest_code, tb.start_ep_index)
                    => \A next \in GetNextStartResult(translation_blocks') :
                          next >= tb.start_ep_index + 1]_vars

-----------------------------------------------------------------------------
(* C28: phase blocks and the stream they were translated from, checked     *)
(* under SpecStreams                                                        *)

\* the packets a phase translation takes from the stream that is loaded
FreshPackets(label) ==
    CASE label = "NESTED_STATE_0" ->
             translateNestedProlog(guest_code, sploop_start_index, 0).packets
      [] label = "NESTED_STATE_1" ->
             translateNestedInner(guest_code, sploop_start_index, 0).packets
      [] label = "NESTED_STATE_2" ->
             translateNestedOverlap(guest_code, 0).packets
      [] OTHER -> <<>>

\* the cached block with the given id after the step
BlockAfter(id) ==
    CHOOSE tb \in {translation_blocks'[i] : i \in 1..Len(translation_blocks')} : tb.tb_id = id

\* C28: every block a nested-loop step dispatches was translated from the
\* stream loaded at the time of the step, so its packets are those the phase
\* translation takes from that stream
C28_NoStalePhaseTB ==
    [][StepTaken = "nested" =>
          \A k \in 1..Len(dispatched') :
              LET tb == BlockAfter(dispatched'[k])
              IN  tb.packets = FreshPackets(tb.start_label)]_vars

====
